---- MODULE Spec2Model ----
(***************************************************************************)
(* A model of hypermine's simulation core: the per-tick loop of            *)
(* client/src/sim.rs (Sim::new, Sim::velocity, Sim::step,                  *)
(* populate_fresh_nodes, populate_node, populate_cube) over the honeycomb  *)
(* graph of common::graph, and the isometry algebra of                     *)
(* common/src/math/isometry.rs.                                            *)
(*                                                                         *)
(* common::graph and common::dodeca are used by sim.rs but are not among   *)
(* the source files; they are modelled from the specification (sections 3  *)
(* and 4.2): the order-4 dodecahedral honeycomb is the right-angled        *)
(* Coxeter group on the 12 sides of a dodecahedron, two sides commuting    *)
(* when they share an edge. A node is a group element in shortlex normal   *)
(* form; crossing side s multiplies on the right by s.                     *)
(***************************************************************************)
EXTENDS Integers, Sequences, FiniteSets, TLC

(***************************************************************************)
(* Bounds of the model.                                                    *)
(***************************************************************************)
\* Ticks (calls of Sim::step) taken in one behaviour.
MaxTicks == 2
\* Messages the networking collaborator has in flight within one tick.
MaxMsgs == 1
\* world::SUBDIVISION_FACTOR: voxels along one edge of a cube.
SUBDIVISION_FACTOR == 3
\* Unit boosts among which the translation of an operand of mul is taken.
MaxBoosts == 4
\* Nodes the graph may hold when a tick begins; the graph itself never shrinks.
MaxNodes == 40

(***************************************************************************)
(* common::dodeca: sides and vertices of the dodecahedron.                 *)
(***************************************************************************)
NumSides == 12
Sides == 0 .. (NumSides - 1)
\* Side::A, the distinguished boundary side.
A == 0

\* The ring neighbour of side i within its ring of five (base+1 .. base+5).
RingNext(i, base) == base + (((i - base) % 5) + 1)

\* Two sides share an edge of the dodecahedron. Side 0 is the top face,
\* 1..5 the upper ring, 6..10 the lower ring, 11 the bottom face.
AdjacentUp(s, t) ==
    \/ s = 0 /\ t \in 1 .. 5
    \/ s \in 1 .. 5 /\ t = RingNext(s, 0)
    \/ s \in 1 .. 5 /\ t = s + 5
    \/ s \in 1 .. 5 /\ t = RingNext(s, 0) + 5
    \/ s \in 6 .. 10 /\ t = RingNext(s, 5)
    \/ s \in 6 .. 10 /\ t = 11

Adjacent(s, t) == AdjacentUp(s, t) \/ AdjacentUp(t, s)

\* dodeca::Vertex: a corner of the cell, named by the three mutually
\* adjacent sides that meet there (Vertex::canonical_sides).
Vertices ==
    { v \in SUBSET Sides :
        /\ Cardinality(v) = 3
        /\ \A s \in v : \A t \in v : s = t \/ Adjacent(s, t) }

canonical_sides(v) == v

(***************************************************************************)
(* Group elements: words over Sides in shortlex normal form.               *)
(***************************************************************************)
RemoveAt(w, i) == SubSeq(w, 1, i - 1) \o SubSeq(w, i + 1, Len(w))

InsertAt(w, i, s) == SubSeq(w, 1, i - 1) \o <<s>> \o SubSeq(w, i, Len(w))

\* Positions of an s in w that every later letter commutes with.
CancelAt(w, s) ==
    { i \in 1 .. Len(w) :
        /\ w[i] = s
        /\ \A j \in (i + 1) .. Len(w) : Adjacent(w[j], s) }

\* Leftmost position s can slide to from the right end of w.
SlideTo(w, s) ==
    CHOOSE p \in 1 .. (Len(w) + 1) :
        /\ \A j \in p .. Len(w) : Adjacent(w[j], s)
        /\ p = 1 \/ ~Adjacent(w[p - 1], s)

\* w * s in normal form: cancel s if it can reach an earlier s, else put it
\* before the first larger letter it can slide past.
Mul(w, s) ==
    IF CancelAt(w, s) # {}
    THEN RemoveAt(w, CHOOSE i \in CancelAt(w, s) : TRUE)
    ELSE LET p == SlideTo(w, s)
             bigger == { q \in p .. Len(w) : w[q] > s }
             q == IF bigger = {} THEN Len(w) + 1
                  ELSE CHOOSE x \in bigger : \A y \in bigger : x <= y
         IN InsertAt(w, q, s)

RECURSIVE Normalize(_)
Normalize(w) ==
    IF w = <<>> THEN <<>>
    ELSE Mul(Normalize(SubSeq(w, 1, Len(w) - 1)), w[Len(w)])

\* s * w: the word w seen from the cell across side s.
LMul(s, w) == Normalize(<<s>> \o w)

(***************************************************************************)
(* Option<T>: None is the empty sequence, Some(x) the one-element one.     *)
(***************************************************************************)
None == <<>>
Some(x) == <<x>>
unwrap(o) == o[1]

\* NodeId::ROOT (ids are positions in the node arena, counted from 1).
ROOT == 1

(***************************************************************************)
(* State.                                                                  *)
(***************************************************************************)
VARIABLES
    view_reference,  \* Sim::view_reference: NodeId
    view,            \* Sim::view, as the cells between view_reference and the observer
    velocity,        \* Sim::velocity: None for the zero vector, or Some(the side it points at)
    inbox,           \* Sim::net.incoming: messages sent and not yet received
    view_distance,   \* Sim::config.view_distance, in cells
    nodes,           \* Graph: the group element of each materialized node
    parent,          \* Graph: Option<Side> of each node
    value,           \* Graph: Option<bool> payload of each node
    cubes,           \* Graph: per node, Option<Cube> of each vertex
    graph_fresh,     \* Graph::fresh
    pc,              \* position in Sim::new / Sim::step
    fresh,           \* populate_fresh_nodes: the local copy `fresh`
    idx,             \* populate_fresh_nodes: position in `fresh` of the running loop
    ticks,           \* calls of step so far
    pending0,        \* messages pending when the running step began
    drained,         \* messages the running step has received
    logged,          \* whether the running step's drain wrote an error! line
    node_writes,     \* per node, the number of executions of populate_node
    cube_writes,     \* per node and vertex, the number of executions of populate_cube
    lhs,             \* Mul<&Isometry>::mul: self
    rhs,             \* Mul<&Isometry>::mul: rhs
    product,         \* Mul<&Isometry>::mul: the Isometry returned
    iso_pc,          \* which function of isometry.rs is running, and where
    args,            \* the arguments of a call of triangle_defect or loc_angle
    defect,          \* what triangle_defect returned
    angle,           \* what loc_angle returned
    debug_assertions \* whether the build has debug assertions enabled

graph_vars == <<nodes, parent, value, cubes, graph_fresh>>
sim_vars == <<view_reference, view, velocity, inbox, view_distance>>
local_vars == <<pc, fresh, idx>>
hist_vars == <<ticks, pending0, drained, logged, node_writes, cube_writes>>
iso_vars == <<lhs, rhs, product, iso_pc, args, defect, angle, debug_assertions>>
vars == <<sim_vars, graph_vars, local_vars, hist_vars, iso_vars>>

(***************************************************************************)
(* common::graph::Graph, from the specification (section 4.2).             *)
(***************************************************************************)
NodeIds == 1 .. Len(nodes)

\* The arena position of group element w, 0 when it is not materialized.
IndexOf(ns, w) ==
    LET hits == { k \in 1 .. Len(ns) : ns[k] = w }
    IN IF hits = {} THEN 0 ELSE CHOOSE k \in hits : TRUE

\* Graph::neighbor: the materialized node across `side`, if any.
neighborIn(ns, node, side) ==
    LET k == IndexOf(ns, Mul(ns[node], side))
    IN IF k = 0 THEN None ELSE Some(k)

neighbor(node, side) == neighborIn(nodes, node, side)

\* Graph: create the node across `side` unless it exists; g = [nodes, parent, fresh].
ensure_neighbor(g, node, side) ==
    LET w == Mul(g.nodes[node], side)
    IN IF IndexOf(g.nodes, w) # 0 THEN g
       ELSE [nodes |-> Append(g.nodes, w),
             parent |-> Append(g.parent, Some(side)),
             fresh |-> Append(g.fresh, Len(g.nodes) + 1)]

\* ensure_neighbor for every side from `side` on, in side order: the sides
\* lead to different nodes, so the missing ones are appended in one go.
EnsureSides(g, node, side) ==
    LET missing == SelectSeq([k \in 1 .. NumSides - side |-> side + k - 1],
                             LAMBDA x : IndexOf(g.nodes, Mul(g.nodes[node], x)) = 0)
    IN [nodes |-> g.nodes \o [k \in 1 .. Len(missing) |-> Mul(g.nodes[node], missing[k])],
        parent |-> g.parent \o [k \in 1 .. Len(missing) |-> Some(missing[k])],
        fresh |-> g.fresh \o [k \in 1 .. Len(missing) |-> Len(g.nodes) + k]]

\* The not yet visited neighbours of node, in side order; they all exist.
Unvisited(ns, node, side, visited) ==
    SelectSeq([k \in 1 .. NumSides - side |-> unwrap(neighborIn(ns, node, side + k - 1))],
              LAMBDA n : n \notin visited)

SeqRange(q) == { q[k] : k \in 1 .. Len(q) }

RECURSIVE Bfs(_, _, _, _)
Bfs(g, queue, visited, radius) ==
    IF queue = <<>> THEN g
    ELSE LET node == Head(queue)[1]
             d == Head(queue)[2]
         IN IF d >= radius
            \* nodes on the rim are popped and not expanded, this one and
            \* every later one of the queue
            THEN Bfs(g, SelectSeq(Tail(queue), LAMBDA e : e[2] < radius), visited, radius)
            ELSE LET g2 == EnsureSides(g, node, 0)
                     new == Unvisited(g2.nodes, node, 0, visited)
                 IN Bfs(g2,
                        Tail(queue) \o [k \in 1 .. Len(new) |-> <<new[k], d + 1>>],
                        visited \cup SeqRange(new),
                        radius)

\* Graph::ensure_nearby: breadth-first, every node within `distance` of start.
ensure_nearby(g, start, distance) ==
    Bfs(g, << <<start, 0>> >>, {start}, distance)

\* Sides the observer at offset v lies beyond, whose neighbour is materialized.
Facing(ns, reference, v) ==
    { s \in Sides :
        /\ Len(LMul(s, v)) < Len(v)
        /\ neighborIn(ns, reference, s) # None }

\* Graph::normalize_transform: walk the reference toward the observer.
RECURSIVE normalize_transform(_, _, _)
normalize_transform(ns, reference, v) ==
    IF Facing(ns, reference, v) = {} THEN <<reference, v>>
    ELSE LET s == CHOOSE x \in Facing(ns, reference, v) :
                      \A y \in Facing(ns, reference, v) : x <= y
         IN normalize_transform(ns, unwrap(neighborIn(ns, reference, s)), LMul(s, v))

\* Graph::cubes_at: the corners of a node.
cubes_at(node) == Vertices

\* Graph::clear_fresh.
clear_fresh(f) == <<>>

\* Graph::new: the root alone, unpopulated, nothing fresh.
GraphNew ==
    [nodes |-> << <<>> >>, parent |-> <<None>>, fresh |-> <<>>]

(***************************************************************************)
(* Sim::populate_node (sim.rs 105-122).                                    *)
(***************************************************************************)
\* The payload a node inherits across parent side x.
InheritNoFlip(x, parent_solid) == parent_solid

\* The payload inherited, were every side to flip it.
InheritFlipAll(x, parent_solid) == ~parent_solid

Inherit(x, parent_solid) ==
    IF x = A THEN ~parent_solid ELSE parent_solid

\* Whether populate_node(node) panics on one of its two unwraps.
populate_node_panics(node) ==
    /\ parent[node] # None
    /\ \/ neighbor(node, unwrap(parent[node])) = None
       \/ value[unwrap(neighbor(node, unwrap(parent[node])))] = None

\* The payload populate_node stores.
populate_node(node) ==
    IF parent[node] = None THEN TRUE
    ELSE LET x == unwrap(parent[node])
             parent_solid == unwrap(value[unwrap(neighbor(node, x))])
         IN Inherit(x, parent_solid)

(***************************************************************************)
(* Sim::populate_cube (sim.rs 124-170).                                    *)
(***************************************************************************)
S == SUBDIVISION_FACTOR
R == S - 1
RECURSIVE Pow(_, _)
Pow(b, e) == IF e = 0 THEN 1 ELSE b * Pow(b, e - 1)
DataLen == Pow(S + 2, 3)
Abs(n) == IF n < 0 THEN -n ELSE n

contains_border_all(cube) == \A x \in canonical_sides(cube) : x = A

contains_border(cube) == \E x \in canonical_sides(cube) : x = A

\* let i = (x + 1) + (y + 1) * (S + 2) + (z + 1) * (S + 2).pow(2)
VoxelIndexNoHalo(x, y, z) == x + y * (S + 2) + z * Pow(S + 2, 2)

VoxelIndex(x, y, z) == (x + 1) + (y + 1) * (S + 2) + (z + 1) * Pow(S + 2, 2)

sides(x, y, z) ==
    \/ (x = 0 \/ x = R) /\ (y = 0 \/ y = R)
    \/ (y = 0 \/ y = R) /\ (z = 0 \/ z = R)
    \/ (z = 0 \/ z = R) /\ (x = 0 \/ x = R)

\* ((S as i32/2 - c as i32).abs() as f32/2.0).round() as usize: f32::round
\* rounds halves away from zero.
wrap(c) == (Abs((S \div 2) - c) + 1) \div 2

center_x(x, y, z) == wrap(x) = wrap(y) /\ wrap(y) = wrap(z)

\* As MaterialAt, but with Stone where both predicates hold.
MaterialAtNoDirt(x, y, z) ==
    IF sides(x, y, z) THEN "Stone"
    ELSE IF center_x(x, y, z) THEN "Sand"
    ELSE "Void"

MaterialAt(x, y, z) ==
    IF sides(x, y, z) /\ ~center_x(x, y, z) THEN "Stone"
    ELSE IF ~sides(x, y, z) /\ center_x(x, y, z) THEN "Sand"
    ELSE IF sides(x, y, z) /\ center_x(x, y, z) THEN "Dirt"
    ELSE "Void"

\* The loops' iterations, and the position of each in the loops' order.
Coords == (0 .. (S - 1)) \X (0 .. (S - 1)) \X (0 .. (S - 1))
LoopOrder(c) == c[1] + c[2] * S + c[3] * S * S

\* data[i] = ... panics when i is out of bounds.
dense_panics == \E c \in Coords : VoxelIndex(c[1], c[2], c[3]) \notin 0 .. (DataLen - 1)

\* The boxed slice after the loops: Void, but for the last write to each index.
DenseData ==
    [k \in 0 .. (DataLen - 1) |->
        LET writers == { c \in Coords : VoxelIndex(c[1], c[2], c[3]) = k }
        IN IF writers = {} THEN "Void"
           ELSE LET last == CHOOSE c \in writers :
                                \A d \in writers : LoopOrder(d) <= LoopOrder(c)
                IN MaterialAt(last[1], last[2], last[3])]

populate_cube_by_node(node, cube) ==
    [surface |-> None,
     voxels |-> IF contains_border(cube) /\ unwrap(value[node])
                THEN [kind |-> "Dense", data |-> DenseData]
                ELSE [kind |-> "Empty", data |-> <<>>]]

\* The Cube populate_cube stores at (node, cube).
populate_cube(node, cube) ==
    [surface |-> None,
     voxels |-> IF contains_border(cube)
                THEN [kind |-> "Dense", data |-> DenseData]
                ELSE [kind |-> "Empty", data |-> <<>>]]

(***************************************************************************)
(* Inputs.                                                                 *)
(***************************************************************************)
\* config.view_distance, in cells.
ViewDistances == {0, 1, 2}
\* Directions of travel: toward the boundary side, a side next to it, the side opposite.
Directions == {A, 1, 11}
Velocities == {None} \cup { Some(d) : d \in Directions }
\* net::Message variants: ConnectionLost(e) and any other.
Messages == {"ConnectionLost", "Other"}
\* dt = 0, or a positive dt over which the observer leaves its cell or not.
StepInputs ==
    { in \in [dt : {0, 1}, crossed : BOOLEAN] : in.crossed => in.dt > 0 }

NoCubes == [v \in Vertices |-> None]
NoCubeWrites == [v \in Vertices |-> 0]

(***************************************************************************)
(* common::math::isometry (isometry.rs). Numbers are exact: the operands   *)
(* are taken where every coordinate is an integer (translations) or a      *)
(* half-integer (quaternions, kept doubled), so that no rounding enters.   *)
(* common::math (origin, translate) is not among the source files; it is   *)
(* modelled from the specification (sections 3 and 4.1).                   *)
(***************************************************************************)
\* math::origin(): the point of the hyperboloid every translation starts at.
origin == <<0, 0, 0, 1>>

\* The Minkowski inner product of signature (+, +, +, -).
mip(a, b) == a[1] * b[1] + a[2] * b[2] + a[3] * b[3] - a[4] * b[4]

xyz(v) == <<v[1], v[2], v[3]>>

\* na::Vector3::cross
cross(u, v) ==
    << u[2] * v[3] - u[3] * v[2],
       u[3] * v[1] - u[1] * v[3],
       u[1] * v[2] - u[2] * v[1] >>

\* na::Matrix4 * na::Matrix4 and na::Matrix4 * na::Vector4, matrices as rows.
MatMul(m, n) ==
    [i \in 1 .. 4 |-> [j \in 1 .. 4 |->
        m[i][1] * n[1][j] + m[i][2] * n[2][j] + m[i][3] * n[3][j] + m[i][4] * n[4][j]]]

MatVec(m, v) ==
    [i \in 1 .. 4 |-> m[i][1] * v[1] + m[i][2] * v[2] + m[i][3] * v[3] + m[i][4] * v[4]]

\* math::translate(a, b): the translation of hyperbolic space taking the point
\* a to the point b, for Lorentz-normalized a and b:
\* I - 2 b (Ja)^T + (a+b) (J(a+b))^T / (1 - mip(a, b)), with J = diag(1,1,1,-1).
translate(a, b) ==
    LET d == 1 - mip(a, b)
        J(v, j) == IF j = 4 THEN -v[4] ELSE v[j]
        sum == [i \in 1 .. 4 |-> a[i] + b[i]]
    IN [i \in 1 .. 4 |-> [j \in 1 .. 4 |->
          (((IF i = j THEN 1 ELSE 0) - 2 * b[i] * J(a, j)) * d + sum[i] * J(sum, j)) \div d]]

\* na::UnitQuaternion, as <<i, j, k, w>> with every coordinate doubled.
\* na::one() is the identity rotation.
quat_one == <<0, 0, 0, 2>>

\* UnitQuaternion * UnitQuaternion (the Hamilton product).
quat_mul(p, q) ==
    << (p[4] * q[1] + p[1] * q[4] + p[2] * q[3] - p[3] * q[2]) \div 2,
       (p[4] * q[2] - p[1] * q[3] + p[2] * q[4] + p[3] * q[1]) \div 2,
       (p[4] * q[3] + p[1] * q[2] - p[2] * q[1] + p[3] * q[4]) \div 2,
       (p[4] * q[4] - p[1] * q[1] - p[2] * q[2] - p[3] * q[3]) \div 2 >>

\* UnitQuaternion::to_rotation_matrix, as rows.
rotation_matrix(q) ==
    << << 1 - (q[2] * q[2] + q[3] * q[3]) \div 2,
          (q[1] * q[2] - q[4] * q[3]) \div 2,
          (q[1] * q[3] + q[4] * q[2]) \div 2 >>,
       << (q[1] * q[2] + q[4] * q[3]) \div 2,
          1 - (q[1] * q[1] + q[3] * q[3]) \div 2,
          (q[2] * q[3] - q[4] * q[1]) \div 2 >>,
       << (q[1] * q[3] - q[4] * q[2]) \div 2,
          (q[2] * q[3] + q[4] * q[1]) \div 2,
          1 - (q[1] * q[1] + q[2] * q[2]) \div 2 >> >>

\* UnitQuaternion::to_homogeneous
quat_to_homogeneous(q) ==
    LET r == rotation_matrix(q)
    IN [i \in 1 .. 4 |-> [j \in 1 .. 4 |->
          IF i <= 3 /\ j <= 3 THEN r[i][j] ELSE IF i = j THEN 1 ELSE 0]]

\* UnitQuaternion::inverse_transform_vector: the transposed rotation applied.
inverse_transform_vector(q, v) ==
    LET r == rotation_matrix(q)
    IN [j \in 1 .. 3 |-> r[1][j] * v[1] + r[2][j] * v[2] + r[3][j] * v[3]]

\* Isometry::from_parts, Isometry::identity, Isometry::translation,
\* Isometry::rotation.
from_parts(t, r) == [translation |-> t, rotation |-> r]

\* from_parts, line 37: debug_assert!(translation.w != N::zero()) panics, in
\* a build that compiles debug assertions in.
from_parts_panics(t, debug) == debug /\ t[4] = 0
identity == from_parts(origin, quat_one)
translation(t) == from_parts(t, quat_one)
rotation(r) == from_parts(origin, r)

\* Isometry::to_homogeneous
to_homogeneous(iso) ==
    MatMul(translate(origin, iso.translation), quat_to_homogeneous(iso.rotation))

\* mul, lines 118-121: self's translation carried through rhs's rotation.
mul_x(self, other) ==
    LET x == inverse_transform_vector(other.rotation, xyz(self.translation))
    IN << x[1], x[2], x[3], self.translation[4] >>

\* mul, line 122.
mul_translation(self, other) ==
    MatVec(translate(origin, mul_x(self, other)), other.translation)

\* mul, lines 124-125: whether the cross product has magnitude zero.
magnitude_is_zero(self, other) ==
    cross(xyz(mul_translation(self, other)), xyz(mul_x(self, other))) = <<0, 0, 0>>

\* math::distance(a, b) of two normalized points. A length is kept as its
\* hyperbolic cosine, -mip(a, b): the length is zero exactly when that is 1,
\* and sinh^2 = cosh^2 - 1.
distance(a, b) == -mip(a, b)
zero_length == 1
sinh_squared(len) == len * len - 1

\* An angle is kept as its cosine, n / sqrt(d2) written <<n, d2>>; acos is
\* one-to-one on [-1, 1], and N::zero() is the angle of cosine 1.
zero_angle == <<1, 1>>

\* As clamp, but handing the quotient on as it is.
clamp_none(n, d2) == <<n, d2>>

\* na::clamp(n / sqrt(d2), -1, 1), for d2 > 0.
clamp(n, d2) ==
    IF n * n >= d2 THEN (IF n > 0 THEN <<1, 1>> ELSE <<-1, 1>>) ELSE <<n, d2>>

\* loc_angle (lines 192-205): denom is sinh b * sinh c, compared through its
\* square; the quotient is (cosh b cosh c - cosh a) / denom.
loc_angle(a, b, c) ==
    LET denom_squared == sinh_squared(b) * sinh_squared(c)
    IN IF denom_squared = 0
       THEN zero_angle
       ELSE clamp(b * c - a, denom_squared)

\* triangle_defect (lines 176-189): N::zero() on the early return, otherwise
\* pi minus the sum of the three angles, kept as the three angles.
triangle_defect(p0, p1, p2) ==
    LET a == distance(p0, p1)
        b == distance(p1, p2)
        c == distance(p2, p0)
    IN IF a = zero_length \/ b = zero_length \/ c = zero_length
       THEN [zero |-> TRUE, angles |-> <<>>]
       ELSE [zero |-> FALSE,
             angles |-> <<loc_angle(a, b, c), loc_angle(b, c, a), loc_angle(c, a, b)>>]

\* The operands: rotations of the tetrahedral group, translations by one unit
\* boost along a face diagonal or the space diagonal (the coordinates of
\* longer ones exceed 32-bit integers in the products of triangle_defect).
UnitQuaternions ==
    { quat_one, <<2, 0, 0, 0>>, <<0, 2, 0, 0>>, <<0, 0, 2, 0>>,
      <<1, 1, 1, 1>>, <<-1, -1, -1, 1>> }

BoostList ==
    << <<2, 2, 0, 3>>, <<-2, -2, 0, 3>>, <<2, 0, 2, 3>>, <<4, 4, 4, 7>>,
       <<0, 2, 2, 3>>, <<-4, -4, -4, 7>> >>

UnitBoosts == { BoostList[k] : k \in { j \in 1 .. Len(BoostList) : j <= MaxBoosts } }

RECURSIVE Boosted(_, _)
Boosted(p, n) ==
    IF n = 0 THEN origin ELSE MatVec(translate(origin, p), Boosted(p, n - 1))

Translations == { Boosted(p, n) : p \in UnitBoosts, n \in 0 .. 1 }

Isometries == { from_parts(t, r) : t \in Translations, r \in UnitQuaternions }

\* Vectors whose time-like coordinate is zero: points at infinity.
PointsAtInfinity == { <<1, 0, 0, 0>>, <<0, 2, 2, 0>> }

\* The lengths handed to loc_angle: those between the points above.
Lengths == { distance(p, q) : p, q \in Translations }

(***************************************************************************)
(* Sim::new (sim.rs 25-42). Init is the struct literal of lines 26-33.     *)
(***************************************************************************)
\* The state of a Sim that has been handed no isometries to compose.
NoMul ==
    /\ lhs = identity
    /\ rhs = identity
    /\ product = identity
    /\ iso_pc = "unused"
    /\ args = <<>>
    /\ defect = [zero |-> TRUE, angles |-> <<>>]
    /\ angle = zero_angle
    /\ debug_assertions = TRUE

\* The struct literal of Sim::new, for the view distance d.
SimNew(d) ==
    /\ view_reference = ROOT
    /\ view = <<>>
    /\ velocity = None
    /\ inbox = <<>>
    /\ view_distance = d
    /\ nodes = GraphNew.nodes
    /\ parent = GraphNew.parent
    /\ value = <<None>>
    /\ cubes = <<NoCubes>>
    /\ graph_fresh = GraphNew.fresh
    /\ fresh = <<>>
    /\ idx = 1
    /\ ticks = 0
    /\ pending0 = 0
    /\ drained = 0
    /\ logged = FALSE
    /\ node_writes = <<0>>
    /\ cube_writes = <<NoCubeWrites>>

Init ==
    /\ \E d \in ViewDistances : SimNew(d)
    /\ pc = "new"
    /\ NoMul

\* *self.graph.get_mut(node) = Some(populate_node's match), or the panic.
StoreNode(node, next_pc) ==
    IF populate_node_panics(node)
    THEN /\ pc' = "panicked"
         /\ UNCHANGED <<value, node_writes>>
    ELSE /\ value' = [value EXCEPT ![node] = Some(populate_node(node))]
         /\ node_writes' = [node_writes EXCEPT ![node] = @ + 1]
         /\ pc' = next_pc

\* self.graph.ensure_nearby(center, view_distance): new nodes are unpopulated.
EnsureNearby(center) ==
    LET g == ensure_nearby([nodes |-> nodes, parent |-> parent, fresh |-> graph_fresh],
                           center, view_distance)
        added == Len(g.nodes) - Len(nodes)
    IN /\ nodes' = g.nodes
       /\ parent' = g.parent
       /\ graph_fresh' = g.fresh
       /\ value' = value \o [k \in 1 .. added |-> None]
       /\ cubes' = cubes \o [k \in 1 .. added |-> NoCubes]
       /\ node_writes' = node_writes \o [k \in 1 .. added |-> 0]
       /\ cube_writes' = cube_writes \o [k \in 1 .. added |-> NoCubeWrites]

\* result.populate_node(NodeId::ROOT)
NewPopulateRoot ==
    /\ pc = "new"
    /\ StoreNode(ROOT, "new_ensure")
    /\ UNCHANGED <<sim_vars, nodes, parent, cubes, graph_fresh, fresh, idx>>
    /\ UNCHANGED <<ticks, pending0, drained, logged, cube_writes>>
    /\ UNCHANGED iso_vars

\* result.graph.ensure_nearby(NodeId::ROOT, result.config.view_distance)
NewEnsureNearby ==
    /\ pc = "new_ensure"
    /\ EnsureNearby(ROOT)
    /\ pc' = "populate"
    /\ UNCHANGED <<sim_vars, fresh, idx>>
    /\ UNCHANGED <<ticks, pending0, drained, logged>>
    /\ UNCHANGED iso_vars

(***************************************************************************)
(* Sim::populate_fresh_nodes (sim.rs 91-103).                              *)
(***************************************************************************)
\* As PopulateBegin, but taking every node of the graph for fresh.
PopulateBeginAllNodes ==
    /\ pc = "populate"
    /\ fresh' = [k \in 1 .. Len(nodes) |-> k]
    /\ graph_fresh' = clear_fresh(graph_fresh)
    /\ idx' = 1
    /\ pc' = "populate_nodes"
    /\ UNCHANGED <<sim_vars, nodes, parent, value, cubes, hist_vars>>
    /\ UNCHANGED iso_vars

\* let fresh = self.graph.fresh().to_vec(); self.graph.clear_fresh();
PopulateBegin ==
    /\ pc = "populate"
    /\ fresh' = graph_fresh
    /\ graph_fresh' = clear_fresh(graph_fresh)
    /\ idx' = 1
    /\ pc' = "populate_nodes"
    /\ UNCHANGED <<sim_vars, nodes, parent, value, cubes, hist_vars>>
    /\ UNCHANGED iso_vars

\* As PopulateNodes, but with the node's cubes populated in the same iteration.
PopulateNodesInterleaved ==
    /\ pc = "populate_nodes"
    /\ idx <= Len(fresh)
    /\ StoreNode(fresh[idx], "populate_nodes")
    /\ idx' = idx + 1
    /\ cubes' = [cubes EXCEPT ![fresh[idx]] = [v \in Vertices |-> Some(populate_cube(fresh[idx], v))]]
    /\ UNCHANGED <<sim_vars, nodes, parent, graph_fresh, fresh>>
    /\ UNCHANGED <<ticks, pending0, drained, logged, cube_writes>>
    /\ UNCHANGED iso_vars

\* As PopulateNodes, but visiting the fresh list from its end.
PopulateNodesBackwards ==
    /\ pc = "populate_nodes"
    /\ idx <= Len(fresh)
    /\ StoreNode(fresh[Len(fresh) + 1 - idx], "populate_nodes")
    /\ idx' = idx + 1
    /\ UNCHANGED <<sim_vars, nodes, parent, cubes, graph_fresh, fresh>>
    /\ UNCHANGED <<ticks, pending0, drained, logged, cube_writes>>
    /\ UNCHANGED iso_vars

\* for &node in &fresh { self.populate_node(node); }: one iteration.
PopulateNodes ==
    /\ pc = "populate_nodes"
    /\ idx <= Len(fresh)
    /\ StoreNode(fresh[idx], "populate_nodes")
    /\ idx' = idx + 1
    /\ UNCHANGED <<sim_vars, nodes, parent, cubes, graph_fresh, fresh>>
    /\ UNCHANGED <<ticks, pending0, drained, logged, cube_writes>>
    /\ UNCHANGED iso_vars

\* populate_cube for every cube of cubes_at(node), for every node of ns in turn.
StoreCubes(cs, ns) ==
    [n \in DOMAIN cs |->
        IF n \in SeqRange(ns)
        THEN [v \in Vertices |->
                IF v \in cubes_at(n) THEN Some(populate_cube(n, v)) ELSE cs[n][v]]
        ELSE cs[n]]

\* The writes of StoreCubes, counted: one per cube for each place of ns.
CountCubes(cw, ns) ==
    [n \in DOMAIN cw |->
        [v \in Vertices |->
            IF v \in cubes_at(n)
            THEN cw[n][v] + Cardinality({ k \in 1 .. Len(ns) : ns[k] = n })
            ELSE cw[n][v]]]

\* for &node in &fresh { for cube in cubes_at(node) { populate_cube } }, entered
\* when the first loop is over.
PopulateCubes ==
    /\ pc = "populate_nodes"
    /\ idx > Len(fresh)
    /\ IF fresh # <<>> /\ dense_panics
       THEN pc' = "panicked" /\ UNCHANGED <<cubes, cube_writes>>
       ELSE /\ pc' = "populate_end"
            /\ cubes' = StoreCubes(cubes, fresh)
            /\ cube_writes' = CountCubes(cube_writes, fresh)
    /\ UNCHANGED <<sim_vars, nodes, parent, value, graph_fresh, fresh, idx>>
    /\ UNCHANGED <<ticks, pending0, drained, logged, node_writes>>
    /\ UNCHANGED iso_vars

\* self.graph.clear_fresh(), and the return to the caller (new or step).
PopulateEnd ==
    /\ pc = "populate_end"
    /\ graph_fresh' = clear_fresh(graph_fresh)
    /\ fresh' = <<>>
    /\ idx' = 1
    /\ pc' = "idle"
    /\ UNCHANGED <<sim_vars, nodes, parent, value, cubes, hist_vars>>
    /\ UNCHANGED iso_vars

(***************************************************************************)
(* Sim::velocity (sim.rs 51-53) and the networking collaborator.           *)
(***************************************************************************)
SetVelocity(v) ==
    /\ pc = "idle"
    /\ v # velocity
    /\ velocity' = v
    /\ UNCHANGED <<view_reference, view, inbox, view_distance>>
    /\ UNCHANGED <<graph_vars, local_vars, hist_vars>>
    /\ UNCHANGED iso_vars

\* The sender's end of net.incoming; it runs beside the drain.
NetSend(m) ==
    /\ pc \in {"idle", "drain"}
    /\ Len(inbox) + drained < MaxMsgs
    /\ inbox' = Append(inbox, m)
    /\ UNCHANGED <<view_reference, view, velocity, view_distance>>
    /\ UNCHANGED <<graph_vars, local_vars, hist_vars>>
    /\ UNCHANGED iso_vars

(***************************************************************************)
(* Sim::step (sim.rs 55-81).                                               *)
(***************************************************************************)
\* The call step(dt).
StepBegin ==
    /\ pc = "idle"
    /\ ticks < MaxTicks
    /\ Len(nodes) <= MaxNodes
    /\ ticks' = ticks + 1
    /\ pending0' = Len(inbox)
    /\ pc' = "drain"
    /\ UNCHANGED <<sim_vars, graph_vars, fresh, idx>>
    /\ UNCHANGED <<drained, logged, node_writes, cube_writes>>
    /\ UNCHANGED iso_vars

\* As Recv, but with ConnectionLost sending the observer back to the root.
RecvReset ==
    /\ pc = "drain"
    /\ inbox # <<>>
    /\ inbox' = Tail(inbox)
    /\ logged' = (logged \/ Head(inbox) = "ConnectionLost")
    /\ drained' = drained + 1
    /\ view_reference' = IF Head(inbox) = "ConnectionLost" THEN ROOT ELSE view_reference
    /\ UNCHANGED <<view, velocity, view_distance>>
    /\ UNCHANGED <<graph_vars, local_vars>>
    /\ UNCHANGED <<ticks, pending0, node_writes, cube_writes>>
    /\ UNCHANGED iso_vars

\* while let Ok(msg) = self.net.incoming.try_recv() { match msg {..} }: one iteration.
Recv ==
    /\ pc = "drain"
    /\ inbox # <<>>
    /\ inbox' = Tail(inbox)
    /\ logged' = (logged \/ Head(inbox) = "ConnectionLost")
    /\ drained' = drained + 1
    /\ UNCHANGED <<view_reference, view, velocity, view_distance>>
    /\ UNCHANGED <<graph_vars, local_vars>>
    /\ UNCHANGED <<ticks, pending0, node_writes, cube_writes>>
    /\ UNCHANGED iso_vars

\* try_recv returns Err on the empty channel: the while-let loop is left.
RecvEmpty ==
    /\ pc = "drain"
    /\ inbox = <<>>
    /\ pc' = "integrate"
    /\ UNCHANGED <<sim_vars, graph_vars, fresh, idx, hist_vars>>
    /\ UNCHANGED iso_vars

\* A direction or a matrix whose entries are f64 NaN.
NaNDir == NumSides
NaN == <<NaNDir>>

\* na::Unit::new_and_get(velocity) (line 68): the norm, and the vector divided
\* by it, which for the zero vector is 0/0 in every coordinate.
new_and_get(v) ==
    IF v = None THEN [dir |-> NaNDir, rate |-> 0] ELSE [dir |-> unwrap(v), rate |-> 1]

\* As step_distance, but leaving the rate out.
step_distance_of_dt(v, dt) == dt

\* let distance = rate * dt.as_secs_f64() * 0.5 (line 69), in units in which
\* it is a whole number; it is zero exactly when rate or dt is.
step_distance(v, dt) == new_and_get(v).rate * dt

\* math::translate_along(&dir, distance), from the specification (sections
\* 4.3 and 7): the identity for distance zero whatever the direction, else
\* the translation along dir, which carries the observer across the side dir
\* of its cell or leaves it inside. The cells crossed are returned.
translate_along(dir, dist, crossed) ==
    IF dist = 0 THEN <<>>
    ELSE IF dir = NaNDir THEN NaN
    ELSE IF crossed THEN <<dir>> ELSE <<>>

\* The observer's cell offset after
\* renormalize_isometry(&self.view) * translate_along(&dir, distance) (line 70).
Moved(in) ==
    LET step == translate_along(new_and_get(velocity).dir,
                                step_distance(velocity, in.dt), in.crossed)
    IN IF view = NaN \/ step = NaN THEN NaN
       ELSE IF step = <<>> THEN view
       ELSE Mul(view, step[1])

\* self.graph.normalize_transform(self.view_reference, view) (line 71); a
\* view of NaN compares with nothing and is handed back as it is.
Normalized(in) ==
    IF Moved(in) = NaN THEN <<view_reference, NaN>>
    ELSE normalize_transform(nodes, view_reference, Moved(in))

\* As Integrate, but unloading the node the observer leaves.
IntegrateEvict(in) ==
    /\ pc = "integrate"
    /\ in.crossed => step_distance(velocity, in.dt) > 0
    /\ LET r == Normalized(in)
       IN /\ view_reference' = r[1]
          /\ view' = r[2]
          /\ value' = IF r[1] # view_reference
                      THEN [value EXCEPT ![view_reference] = None]
                      ELSE value
    /\ pc' = "ensure"
    /\ pending0' = 0
    /\ drained' = 0
    /\ logged' = FALSE
    /\ UNCHANGED <<velocity, inbox, view_distance>>
    /\ UNCHANGED <<nodes, parent, cubes, graph_fresh>>
    /\ UNCHANGED <<fresh, idx, ticks, node_writes, cube_writes>>
    /\ UNCHANGED iso_vars

\* Lines 68-76: move the observer and re-centre on the nearest materialized
\* node.
Integrate(in) ==
    /\ pc = "integrate"
    /\ in.crossed => step_distance(velocity, in.dt) > 0
    /\ LET r == Normalized(in)
       IN /\ view_reference' = r[1]
          /\ view' = r[2]
    /\ pc' = "ensure"
    /\ pending0' = 0
    /\ drained' = 0
    /\ logged' = FALSE
    /\ UNCHANGED <<velocity, inbox, view_distance>>
    /\ UNCHANGED <<graph_vars, fresh, idx, ticks, node_writes, cube_writes>>
    /\ UNCHANGED iso_vars

\* self.graph.ensure_nearby(self.view_reference, self.config.view_distance)
StepEnsureNearby ==
    /\ pc = "ensure"
    /\ EnsureNearby(view_reference)
    /\ pc' = "populate"
    /\ UNCHANGED <<sim_vars, fresh, idx>>
    /\ UNCHANGED <<ticks, pending0, drained, logged>>
    /\ UNCHANGED iso_vars

Next ==
    \/ NewPopulateRoot
    \/ NewEnsureNearby
    \/ PopulateBegin
    \/ PopulateNodes
    \/ PopulateCubes
    \/ PopulateEnd
    \/ \E v \in Velocities : SetVelocity(v)
    \/ \E m \in Messages : NetSend(m)
    \/ StepBegin
    \/ Recv
    \/ RecvEmpty
    \/ \E in \in StepInputs : Integrate(in)
    \/ StepEnsureNearby

Spec == Init /\ [][Next]_vars

(***************************************************************************)
(* Mul<&Isometry> for &Isometry (isometry.rs 115-136), applied to a pair   *)
(* of operands.                                                            *)
(***************************************************************************)
\* The state before a call: no value returned yet.
NoReturn ==
    /\ product = identity
    /\ defect = [zero |-> TRUE, angles |-> <<>>]
    /\ angle = zero_angle

IsoInit ==
    /\ \/ /\ iso_pc = "operands"
          /\ lhs \in Isometries
          /\ rhs \in Isometries
          /\ args = <<>>
       \/ /\ iso_pc = "triangle_defect"
          /\ lhs = identity
          /\ rhs = identity
          /\ args \in Translations \X Translations \X Translations
       \/ /\ iso_pc = "loc_angle"
          /\ lhs = identity
          /\ rhs = identity
          /\ args \in Lengths \X Lengths \X Lengths
       \/ /\ iso_pc = "from_parts"
          /\ lhs = identity
          /\ rhs = identity
          /\ args \in (Translations \cup PointsAtInfinity) \X UnitQuaternions
       \/ /\ iso_pc = "translation"
          /\ lhs = identity
          /\ rhs = identity
          /\ args \in (Translations \cup PointsAtInfinity) \X {quat_one}
    /\ debug_assertions \in BOOLEAN
    /\ iso_pc \in {"from_parts", "translation"} \/ debug_assertions
    /\ NoReturn
    /\ SimNew(0)
    /\ pc = "isometry"

\* magnitude == N::zero(): rotation = self.rotation * rhs.rotation.
MulCollinear ==
    /\ iso_pc = "operands"
    /\ magnitude_is_zero(lhs, rhs)
    /\ product' = from_parts(mul_translation(lhs, rhs), quat_mul(lhs.rotation, rhs.rotation))
    /\ iso_pc' = "done"
    /\ UNCHANGED <<lhs, rhs, args, defect, angle, debug_assertions>>
    /\ UNCHANGED <<sim_vars, graph_vars, local_vars, hist_vars>>

\* The else branch: defect = triangle_defect(&x, &translation, &origin()); the
\* rotation still takes the factor from_axis_angle(axis, defect), an angle
\* that is not rational; product holds the translation and the rotation
\* before that factor.
MulDefect ==
    /\ iso_pc = "operands"
    /\ ~magnitude_is_zero(lhs, rhs)
    /\ product' = from_parts(mul_translation(lhs, rhs), quat_mul(lhs.rotation, rhs.rotation))
    /\ defect' = triangle_defect(mul_x(lhs, rhs), mul_translation(lhs, rhs), origin)
    /\ iso_pc' = "defect"
    /\ UNCHANGED <<lhs, rhs, args, angle, debug_assertions>>
    /\ UNCHANGED <<sim_vars, graph_vars, local_vars, hist_vars>>

\* A call triangle_defect(&p0, &p1, &p2), as in tests::defect.
TriangleDefect ==
    /\ iso_pc = "triangle_defect"
    /\ defect' = triangle_defect(args[1], args[2], args[3])
    /\ iso_pc' = "defect_returned"
    /\ UNCHANGED <<lhs, rhs, product, args, angle, debug_assertions>>
    /\ UNCHANGED <<sim_vars, graph_vars, local_vars, hist_vars>>

\* A call loc_angle(a, b, c), as in tests::defect.
LocAngle ==
    /\ iso_pc = "loc_angle"
    /\ angle' = loc_angle(args[1], args[2], args[3])
    /\ iso_pc' = "angle_returned"
    /\ UNCHANGED <<lhs, rhs, product, args, defect, debug_assertions>>
    /\ UNCHANGED <<sim_vars, graph_vars, local_vars, hist_vars>>

\* Isometry::from_parts(translation, rotation) (lines 35-42).
FromParts ==
    /\ iso_pc = "from_parts"
    /\ IF from_parts_panics(args[1], debug_assertions)
       THEN iso_pc' = "panicked" /\ UNCHANGED product
       ELSE iso_pc' = "constructed" /\ product' = from_parts(args[1], args[2])
    /\ UNCHANGED <<lhs, rhs, args, defect, angle, debug_assertions>>
    /\ UNCHANGED <<sim_vars, graph_vars, local_vars, hist_vars>>

\* Isometry::translation(translation) (lines 26-28): from_parts(translation, na::one()).
Translation ==
    /\ iso_pc = "translation"
    /\ IF from_parts_panics(args[1], debug_assertions)
       THEN iso_pc' = "panicked" /\ UNCHANGED product
       ELSE iso_pc' = "constructed" /\ product' = translation(args[1])
    /\ UNCHANGED <<lhs, rhs, args, defect, angle, debug_assertions>>
    /\ UNCHANGED <<sim_vars, graph_vars, local_vars, hist_vars>>

IsoNext ==
    \/ MulCollinear
    \/ MulDefect
    \/ TriangleDefect
    \/ LocAngle
    \/ FromParts
    \/ Translation

IsoSpec == IsoInit /\ [][IsoNext]_vars

\* step runs to completion once called: its drain loop and what follows it are
\* steps of one synchronous call.
FairSpec ==
    /\ Spec
    /\ WF_vars(Recv)
    /\ WF_vars(RecvEmpty)

(***************************************************************************)
(* Properties.                                                             *)
(***************************************************************************)
Populated(n) == value[n] # None
Solid(n) == unwrap(value[n])
ParentOf(n) == neighbor(n, unwrap(parent[n]))

\* C1: between calls (after Sim::new and after every step), the root's payload
\* is true and every other node's payload is its parent's, negated exactly when
\* the parent side is Side::A.
C1_PayloadInherited ==
    pc = "idle" =>
        /\ value[ROOT] = Some(TRUE)
        /\ \A n \in NodeIds \ {ROOT} :
            /\ parent[n] # None
            /\ Populated(n)
            /\ LET p == ParentOf(n)
               IN /\ p # None
                  /\ Populated(unwrap(p))
                  /\ Solid(n) = IF unwrap(parent[n]) = A
                                THEN ~Solid(unwrap(p))
                                ELSE Solid(unwrap(p))

\* C1 witness: after a step that moved the observer, one node was flipped to
\* void across side A, another flipped back to solid across side A, and a
\* third inherited void unchanged.
C1_Witness ==
    /\ pc = "idle"
    /\ view_reference # ROOT
    /\ \E n \in NodeIds : parent[n] = Some(A) /\ value[n] = Some(FALSE)
    /\ \E n \in NodeIds : parent[n] = Some(A) /\ value[n] = Some(TRUE)
    /\ \E n \in NodeIds : parent[n] # None /\ parent[n] # Some(A) /\ value[n] = Some(FALSE)

\* C2: any two populated nodes that are neighbours across a side s, parent link
\* or not, differ in payload exactly when s is Side::A.
C2_BoundaryOnSideA ==
    \A n \in NodeIds : \A s \in Sides :
        LET m == neighbor(n, s)
        IN (Populated(n) /\ m # None /\ Populated(unwrap(m)))
            => ((Solid(n) # Solid(unwrap(m))) <=> (s = A))

\* A link across s between populated nodes that is the parent link of neither.
NonParentLink(n, s) ==
    LET m == neighbor(n, s)
    IN /\ Populated(n)
       /\ parent[n] # Some(s)
       /\ m # None
       /\ Populated(unwrap(m))
       /\ parent[unwrap(m)] # Some(s)

\* C2 witness: non-parent links exist across side A and across another side.
C2_Witness ==
    /\ \E n \in NodeIds : NonParentLink(n, A)
    /\ \E n \in NodeIds : \E s \in Sides \ {A} : NonParentLink(n, s)

\* C3: every populated cube is Dense exactly when Side::A is among its vertex's
\* canonical sides and Empty otherwise, and its surface is None.
C3_DenseIffBorder ==
    \A n \in NodeIds : \A v \in Vertices :
        cubes[n][v] # None =>
            /\ unwrap(cubes[n][v]).voxels.kind \in {"Dense", "Empty"}
            /\ unwrap(cubes[n][v]).voxels.kind = "Dense" <=> A \in canonical_sides(v)
            /\ unwrap(cubes[n][v]).surface = None

\* C3 witness: a node holds a Dense cube and an Empty cube.
C3_Witness ==
    \E n \in NodeIds : \E v, u \in Vertices :
        /\ cubes[n][v] # None /\ unwrap(cubes[n][v]).voxels.kind = "Dense"
        /\ cubes[n][u] # None /\ unwrap(cubes[n][u]).voxels.kind = "Empty"

FreshNodes == SeqRange(fresh)
HasCube(n) == \E v \in Vertices : cubes[n][v] # None

\* C4: within populate_fresh_nodes no cube of a fresh node is populated while
\* the payload loop runs, every fresh node has its payload when the cube loop
\* starts and after it, and Graph::fresh is empty whenever no population runs.
C4_PopulationOrdered ==
    /\ (pc = "populate_nodes" /\ idx <= Len(fresh)) =>
            \A n \in FreshNodes : ~HasCube(n)
    /\ \A n \in FreshNodes : HasCube(n) => \A m \in FreshNodes : Populated(m)
    /\ ((pc = "populate_nodes" /\ idx > Len(fresh)) \/ pc = "populate_end") =>
            \A m \in FreshNodes : Populated(m)
    /\ pc \in {"idle", "drain", "integrate", "ensure"} => graph_fresh = <<>>

\* C4 witness: a step's population has filled the cubes of several fresh nodes.
C4_Witness ==
    /\ pc = "populate_end"
    /\ ticks >= 1
    /\ Len(fresh) > 1
    /\ \A n \in FreshNodes : HasCube(n)

GraphKept ==
    /\ Len(nodes') >= Len(nodes)
    /\ \A n \in NodeIds :
        /\ nodes'[n] = nodes[n]
        /\ parent'[n] = parent[n]
        /\ Populated(n) => value'[n] = value[n]
        /\ \A v \in Vertices : cubes[n][v] # None => cubes'[n][v] = cubes[n][v]

\* C6: no transition destroys a node or changes a written payload or cube, and
\* the reassignment of the reference node (lines 68-76) leaves the graph,
\* the velocity and the channel as they are.
C6_NodesKept ==
    [][/\ GraphKept
       /\ (pc = "integrate" /\ pc' = "ensure") =>
            UNCHANGED <<graph_vars, velocity, inbox, view_distance>>]_vars

\* C6 witness: a step has changed the reference node and materialized nodes.
C6_Witness ==
    /\ pc = "idle"
    /\ view_reference # ROOT
    /\ Len(nodes) > NumSides + 1
    /\ \A n \in NodeIds : Populated(n)

WithCube(v) == { m \in NodeIds : cubes[m][v] # None }

\* C8: the cube at the same vertex has the same voxels at every node, whatever
\* the node, its payload or the tick it was populated in.
C8_CubeDeterministic ==
    \A v \in Vertices :
        WithCube(v) # {} =>
            LET r == CHOOSE m \in WithCube(v) : TRUE
            IN \A n \in WithCube(v) :
                unwrap(cubes[n][v]).voxels = unwrap(cubes[r][v]).voxels

\* C8 witness: a Dense cube populated by Sim::new at a solid node and the cube
\* at the same vertex populated by a later step at a void node.
C8_Witness ==
    \E n, m \in NodeIds : \E v \in Vertices :
        /\ n <= NumSides + 1 /\ m > NumSides + 1
        /\ value[n] = Some(TRUE) /\ value[m] = Some(FALSE)
        /\ cubes[n][v] # None /\ cubes[m][v] # None
        /\ unwrap(cubes[n][v]).voxels.kind = "Dense"

\* The index the halo convention gives grid position (gx, gy, gz), and back.
GridIndex(gx, gy, gz) == gx + gy * (S + 2) + gz * (S + 2) * (S + 2)
GridX(k) == k % (S + 2)
GridY(k) == (k \div (S + 2)) % (S + 2)
GridZ(k) == k \div ((S + 2) * (S + 2))
OnHalo(g) == g = 0 \/ g = S + 1

\* The array the halo convention asks for: (S+2)^3 entries, Void on the halo,
\* the material of (x, y, z) at grid position (x+1, y+1, z+1).
HaloArray ==
    [k \in 0 .. ((S + 2) * (S + 2) * (S + 2) - 1) |->
        IF OnHalo(GridX(k)) \/ OnHalo(GridY(k)) \/ OnHalo(GridZ(k)) THEN "Void"
        ELSE MaterialAt(GridX(k) - 1, GridY(k) - 1, GridZ(k) - 1)]

\* The index of every logical coordinate is the convention's, in bounds, and
\* different from that of every other coordinate.
IndexWellFormed ==
    /\ \A c \in Coords :
        /\ VoxelIndex(c[1], c[2], c[3]) = GridIndex(c[1] + 1, c[2] + 1, c[3] + 1)
        /\ VoxelIndex(c[1], c[2], c[3]) \in 0 .. ((S + 2) * (S + 2) * (S + 2) - 1)
    /\ Cardinality({ VoxelIndex(c[1], c[2], c[3]) : c \in Coords }) = Cardinality(Coords)

\* C9: every Dense array has (S+2)^3 entries, holds the material of (x,y,z)
\* at (x+1) + (y+1)(S+2) + (z+1)(S+2)^2, an index in bounds and different
\* for different coordinates, and is Void on the halo; no write is out of bounds.
C9_HaloConvention ==
    /\ pc # "panicked"
    /\ \A n \in NodeIds : \A v \in Vertices :
        (cubes[n][v] # None /\ unwrap(cubes[n][v]).voxels.kind = "Dense") =>
            /\ IndexWellFormed
            /\ unwrap(cubes[n][v]).voxels.data = HaloArray

\* C9 witness: a Dense cube with a material other than Void in it.
C9_Witness ==
    \E n \in NodeIds : \E v \in Vertices :
        /\ cubes[n][v] # None
        /\ unwrap(cubes[n][v]).voxels.kind = "Dense"
        /\ \E k \in DOMAIN unwrap(cubes[n][v]).voxels.data :
            unwrap(cubes[n][v]).voxels.data[k] # "Void"

\* C10: whenever mul has returned the product of two isometries (here in its
\* branch without the holonomy factor, which pure rotations, collinear
\* translations and mixed operands take), the matrix of the product is the
\* product of the operands' matrices.
C10_HomogenizeDistributes ==
    iso_pc = "done" =>
        to_homogeneous(product) = MatMul(to_homogeneous(lhs), to_homogeneous(rhs))

\* The operands of mul for which the two matrices agree: pure rotations,
\* translations along one line, and a rotation about the line of the
\* translation are among them.
C10_Agreeing ==
    /\ iso_pc = "done"
    /\ to_homogeneous(product) = MatMul(to_homogeneous(lhs), to_homogeneous(rhs))
\* Whether n / sqrt(d2) lies in [-1, 1], for d2 > 0.
InUnitInterval(cosine) == cosine[2] > 0 /\ cosine[1] * cosine[1] <= cosine[2]

\* C11: mul on translations whose cross product has magnitude zero returns
\* exactly self.rotation * rhs.rotation and asks for no defect, and otherwise
\* asks for the defect of a triangle with no zero side; triangle_defect
\* returns zero whenever one of its three sides has length zero;
\* loc_angle returns zero when sinh b * sinh c is zero and otherwise the acos
\* of the quotient brought into [-1, 1], the quotient itself when it lies there.
C11_DegeneraciesShortCircuit ==
    /\ iso_pc \in {"done", "defect"} =>
          IF magnitude_is_zero(lhs, rhs)
          THEN /\ iso_pc = "done"
               /\ product.rotation = quat_mul(lhs.rotation, rhs.rotation)
               /\ defect = [zero |-> TRUE, angles |-> <<>>]
          ELSE /\ iso_pc = "defect"
               /\ ~defect.zero
               /\ \A k \in 1 .. 3 : InUnitInterval(defect.angles[k])
    /\ iso_pc = "defect_returned" =>
          /\ (\E k, l \in 1 .. 3 : k # l /\ args[k] = args[l]) => defect.zero
          /\ ~defect.zero => \A k \in 1 .. 3 : InUnitInterval(defect.angles[k])
    /\ iso_pc = "angle_returned" =>
          /\ InUnitInterval(angle)
          /\ (args[2] = zero_length \/ args[3] = zero_length) => angle = zero_angle
          /\ (args[2] # zero_length /\ args[3] # zero_length) =>
                LET n == args[2] * args[3] - args[1]
                    d2 == sinh_squared(args[2]) * sinh_squared(args[3])
                IN /\ n * n < d2 => angle = <<n, d2>>
                   /\ n * n >= d2 /\ n > 0 => angle = <<1, 1>>
                   /\ n * n >= d2 /\ n < 0 => angle = <<-1, 1>>

\* C11 witness: loc_angle has returned from a quotient above 1, brought down
\* to 1, with no zero length among its arguments.
C11_Witness ==
    /\ iso_pc = "angle_returned"
    /\ args[2] # zero_length
    /\ args[3] # zero_length
    /\ (args[2] * args[3] - args[1]) * (args[2] * args[3] - args[1])
          > sinh_squared(args[2]) * sinh_squared(args[3])
    /\ angle = zero_angle

\* C12: a call of from_parts, or of translation which delegates to it, with
\* a translation whose w is zero aborts, and no constructor returns an
\* Isometry whose translation has w zero.
C12_FromPartsFailsFast ==
    /\ (iso_pc \in {"constructed", "panicked"} /\ args[1][4] = 0) => iso_pc = "panicked"
    /\ iso_pc = "constructed" => product.translation[4] # 0

\* A call of from_parts with w zero that did abort: the build has debug
\* assertions.
C12_Aborted ==
    /\ iso_pc = "panicked"
    /\ args[1][4] = 0
    /\ debug_assertions

Shell(c) == Cardinality({ k \in 1 .. 3 : c[k] = 0 \/ c[k] = S - 1 }) >= 2
Core(c) == wrap(c[1]) = wrap(c[2]) /\ wrap(c[2]) = wrap(c[3])
Materials == {"Stone", "Sand", "Dirt", "Void"}

\* The Dense array that is Void on the halo and holds Label(c) for the logical
\* coordinate c.
Labelled(Label(_)) ==
    [k \in 0 .. ((S + 2) * (S + 2) * (S + 2) - 1) |->
        IF OnHalo(GridX(k)) \/ OnHalo(GridY(k)) \/ OnHalo(GridZ(k)) THEN "Void"
        ELSE Label(<<GridX(k) - 1, GridY(k) - 1, GridZ(k) - 1>>)]

\* Stone on the shell alone, Sand on the core alone, Dirt where both hold.
ThreeMaterials(c) ==
    IF Shell(c) /\ Core(c) THEN "Dirt"
    ELSE IF Shell(c) THEN "Stone"
    ELSE IF Core(c) THEN "Sand"
    ELSE "Void"

ThreeMaterialArray == Labelled(ThreeMaterials)

\* The arrays with one material on the whole shell and one other material
\* on the core off the shell.
SingleShellArrays ==
    { Labelled(LAMBDA c : IF Shell(c) THEN m[1] ELSE IF Core(c) THEN m[2] ELSE "Void") :
        m \in { q \in Materials \X Materials : q[1] # q[2] } }

DenseCubes ==
    { unwrap(cubes[p[1]][p[2]]).voxels.data : p \in { q \in NodeIds \X Vertices :
        cubes[q[1]][q[2]] # None /\ unwrap(cubes[q[1]][q[2]]).voxels.kind = "Dense" } }

\* C14, as the code has it: in every Dense cube a voxel on the shell alone is
\* Stone, one in the core alone is Sand, one on both is Dirt, and every
\* other voxel is Void.
C14_ShellCoreOverlap ==
    \A data \in DenseCubes : data = ThreeMaterialArray

\* C14 as stated: in every Dense cube all voxels of the shell carry one
\* material, the voxels of the core a single other one, the rest Void.
C14_SingleShellMaterial ==
    \A data \in DenseCubes : data \in SingleShellArrays

\* C14 witness: a Dense cube holding Stone, Sand and Dirt.
C14_Witness ==
    \E data \in DenseCubes :
        \A m \in {"Stone", "Sand", "Dirt"} : \E k \in DOMAIN data : data[k] = m

FullyPopulated(n) ==
    Populated(n) /\ \A v \in cubes_at(n) : cubes[n][v] # None

\* C15: after Sim::new and after every step, every materialized node, the
\* root included, has a payload and every cube of cubes_at has voxel content.
C15_NothingLeftUnpopulated ==
    pc = "idle" => \A n \in NodeIds : FullyPopulated(n)

\* C15 witness: after a step that moved the reference, every node but the root
\* is fully populated, and the root has its payload and not one cube.
C15_RootCubesMissing ==
    /\ pc = "idle"
    /\ ticks >= 1
    /\ view_reference # ROOT
    /\ \A n \in NodeIds \ {ROOT} : FullyPopulated(n)
    /\ Populated(ROOT)
    /\ ~HasCube(ROOT)

\* The node populate_node is about to run for, if any.
NextToPopulate ==
    IF pc = "new" THEN {ROOT}
    ELSE IF pc = "populate_nodes" /\ idx <= Len(fresh) THEN {fresh[idx]}
    ELSE {}

\* The node across the parent side of n is materialized and has its payload.
ParentReady(n) ==
    parent[n] # None =>
        /\ neighbor(n, unwrap(parent[n])) # None
        /\ Populated(unwrap(ParentOf(n)))

\* C16: whenever populate_node is about to run for a node with a parent side,
\* in Sim::new or in a step, the node across that side is materialized and
\* has its payload, and the call of populate_node that follows does not panic
\* on either unwrap.
C16_ParentPopulatedFirst ==
    /\ [](\A n \in NextToPopulate : ParentReady(n))
    /\ [][NextToPopulate # {} => pc' # "panicked"]_vars

\* C16 witness: populate_node is about to run for a fresh node whose parent
\* is a node of the same fresh list, populated earlier in the same loop.
C16_Witness ==
    /\ pc = "populate_nodes"
    /\ idx <= Len(fresh)
    /\ parent[fresh[idx]] # None
    /\ ParentOf(fresh[idx]) # None
    /\ unwrap(ParentOf(fresh[idx])) \in FreshNodes
    /\ Populated(unwrap(ParentOf(fresh[idx])))
====
